---- MODULE Spec2Model ----
(***************************************************************************)
(* Model of guides/ipynb/keras_tuner/getting_started.ipynb: the three      *)
(* model-building callbacks (build_model, the conditional build_model and  *)
(* MyHyperModel.build) and the notebook's top-to-bottom statement order.   *)
(*                                                                         *)
(* The hyperparameter handle `hp` and the tuner are objects of the         *)
(* kerastuner library, which is not part of this repository.  A handle     *)
(* call is modelled by what the callback passes to it (the call record)    *)
(* and by the value it answers, which is an input chosen by the            *)
(* environment.  The tuner is an environment that may invoke its callback  *)
(* any number of times while a search is running.                          *)
(***************************************************************************)
EXTENDS Integers, Sequences, FiniteSets, TLC

\* Largest answer the handle gives for "num_layers" in the model (the code
\* allows up to 20).
MaxNumLayers == 3

------------------------------------------------------------------------------
\* Values and handle calls

\* The value grid of hp.Int(name, min_value, max_value, step).
IntValues(min_value, max_value, step) ==
    {min_value + step * k : k \in 0..((max_value - min_value) \div step)}

\* hp.Int("units", min_value=32, max_value=512, step=32)
UnitsValues == IntValues(32, 512, 32)

\* The two ends of the units grid, used where every layer draws its own value.
UnitsSample == {32, 512}

\* values=[1e-2, 1e-3, 1e-4], kept as the literals of the source.
LearningRates == <<"1e-2", "1e-3", "1e-4">>

\* hp.Int("num_layers", 2, 20), cut at MaxNumLayers.
NumLayersValues == {n \in IntValues(2, 20, 1) : n <= MaxNumLayers}

Range(s) == {s[k] : k \in DOMAIN s}

\* What a callback passes to hp.Int; without default=, the default of an Int
\* is its min_value.
HpInt(name, min_value, max_value, step) ==
    [name |-> name, kind |-> "Int", min_value |-> min_value,
     max_value |-> max_value, step |-> step, default |-> min_value]

\* What a callback passes to hp.Choice.
HpChoice(name, values) == [name |-> name, kind |-> "Choice", values |-> values]

\* What is passed to hp.Fixed.
HpFixed(name, value) == [name |-> name, kind |-> "Fixed", value |-> value]

Digits == <<"0", "1", "2", "3", "4", "5", "6", "7", "8", "9">>

\* Python's str(i) for i >= 0: the decimal digits of i.
RECURSIVE str(_)
str(i) ==
    IF i < 10 THEN Digits[i + 1]
    ELSE str(i \div 10) \o Digits[(i % 10) + 1]

\* Python's range(n): 0, 1, ..., n-1.
range(n) == [k \in 1..n |-> k - 1]

------------------------------------------------------------------------------
\* Keras objects

Flatten == [type |-> "Flatten"]

Dense(units, activation) ==
    [type |-> "Dense", units |-> units, activation |-> activation]

Adam(learning_rate) == [name |-> "Adam", learning_rate |-> learning_rate]

\* keras.Sequential() after its add calls, then model.compile(...).
Compiled(layerSeq, optimizer, loss, metrics) ==
    [layers |-> layerSeq, optimizer |-> optimizer, loss |-> loss,
     metrics |-> metrics]

------------------------------------------------------------------------------
\* The callbacks.  r holds the handle's answers; the result is the returned
\* model, the handle calls made (in order) and the loop iterations run.

VARIABLES
    space,       \* per callback, the SearchSpace of the handle it is called with
    declared,    \* per callback, the names passed to handle calls so far
    ran,         \* per callback, the loop iterations run so far
    last,        \* the latest invocation: callback, answers, model, calls
    remembered,  \* an earlier invocation kept for comparison
    instance,    \* the MyHyperModel object made by MyHyperModel(classes=10)
    pc,          \* the notebook statement to run next
    bindings,    \* what the notebook's global names are bound to
    tuners,      \* the tuner objects constructed so far
    log          \* the notebook-level operations completed so far

vars == <<space, declared, ran, last, remembered, instance, pc, bindings,
          tuners, log>>

\* A mutant of build_model: the two Dense layers' unit counts swapped.
build_model_Swapped(r) ==
    [model |-> Compiled(<<Flatten, Dense(10, "relu"),
                          Dense(r.units, "softmax")>>,
                        Adam(r.learning_rate),
                        "categorical_crossentropy", <<"accuracy">>),
     calls |-> <<HpInt("units", 32, 512, 32),
                 HpChoice("learning_rate", LearningRates)>>,
     iters |-> <<>>]

build_model(r) ==
    [model |-> Compiled(<<Flatten, Dense(r.units, "relu"),
                          Dense(10, "softmax")>>,
                        Adam(r.learning_rate),
                        "categorical_crossentropy", <<"accuracy">>),
     calls |-> <<HpInt("units", 32, 512, 32),
                 HpChoice("learning_rate", LearningRates)>>,
     iters |-> <<>>]

\* The names the loop gives its inner parameter: "units_" + str(i).
UnitsNames(loop) == [k \in DOMAIN loop |-> "units_" \o str(loop[k])]

\* The body of the conditional build_model over the loop's range `loop`,
\* whose k-th iteration declares the parameter names[k].
ConditionalBody(r, loop, names) ==
    LET hidden == [k \in DOMAIN loop |-> Dense(r.units[k], "relu")]
        inner  == [k \in DOMAIN loop |-> HpInt(names[k], 32, 512, 32)]
    IN  [model |-> Compiled(<<Flatten>> \o hidden \o <<Dense(10, "softmax")>>,
                            Adam(r.learning_rate),
                            "categorical_crossentropy", <<"accuracy">>),
         calls |-> <<HpInt("num_layers", 2, 20, 1)>> \o inner
                     \o <<HpChoice("learning_rate", LearningRates)>>,
         iters |-> loop]

\* A mutant: the model is created once, outside the function, so every
\* invocation adds its layers to the layers of the invocation before.
build_model_conditional_SharedModel(r) ==
    LET own == ConditionalBody(r, range(r.num_layers),
                               UnitsNames(range(r.num_layers)))
        before == IF last.cb = "build_model_conditional"
                  THEN last.model.layers ELSE <<>>
    IN  [own EXCEPT !.model.layers = before \o @]

\* A mutant: the loop stops one iteration early.
build_model_conditional_ShortLoop(r) ==
    ConditionalBody(r, range(r.num_layers - 1),
                    UnitsNames(range(r.num_layers - 1)))

\* A mutant: every inner parameter is named "units".
build_model_conditional_OneName(r) ==
    ConditionalBody(r, range(r.num_layers),
                    [k \in 1..r.num_layers |-> "units"])

build_model_conditional(r) ==
    ConditionalBody(r, range(r.num_layers), UnitsNames(range(r.num_layers)))

\* MyHyperModel.__init__(self, classes)
MyHyperModel(classes) == [class |-> "MyHyperModel", classes |-> classes]

\* MyHyperModel.build(self, hp); self.classes is set by __init__.
MyHyperModel_build(self, r) ==
    [model |-> Compiled(<<Flatten, Dense(r.units, "relu"),
                          Dense(self.classes, "softmax")>>,
                        Adam(r.learning_rate),
                        "categorical_crossentropy", <<"accuracy">>),
     calls |-> <<HpInt("units", 32, 512, 32),
                 HpChoice("learning_rate", LearningRates)>>,
     iters |-> <<>>]

------------------------------------------------------------------------------
\* The handle's side effect and a callback invocation

NoInvocation == [cb |-> "none"]

NoObject == [class |-> "none"]

\* The notebook's global names before any statement has run.
Unbound ==
    [build_model |-> "undefined", hypermodel |-> NoObject,
     hp |-> [defined |-> FALSE, space |-> <<>>], tuner |-> 0]

Callbacks == {"build_model", "build_model_conditional", "MyHyperModel.build"}

Names(sp) == {sp[k].name : k \in DOMAIN sp}

\* The handle's registration: each call whose name is new adds one
\* HyperParameter to the SearchSpace; a call with a known name adds nothing.
RECURSIVE Register(_, _)
Register(sp, calls) ==
    IF calls = <<>> THEN sp
    ELSE LET c == Head(calls)
         IN  Register(IF c.name \in Names(sp) THEN sp ELSE Append(sp, c),
                      Tail(calls))

\* The answers a handle may give to the calls of the single-layer callbacks,
\* with units drawn from U.
SingleResponses(U) == [units : U, learning_rate : Range(LearningRates)]

\* The answers a handle may give to the calls of the conditional callback.
ConditionalResponses ==
    UNION {[num_layers : {n}, units : [1..n -> UnitsSample],
            learning_rate : Range(LearningRates)] : n \in NumLayersValues}

\* The conditional callback's answers with the two shortest loops only.
ConditionalSample ==
    {r \in ConditionalResponses : r.num_layers \in {2, 3}}

Result(cb, r) ==
    CASE cb = "build_model" -> build_model(r)
      [] cb = "build_model_conditional" -> build_model_conditional(r)
      [] cb = "MyHyperModel.build" -> MyHyperModel_build(instance, r)

\* One invocation of callback cb with a handle answering r.
Call(cb, r) ==
    \E res \in {Result(cb, r)} :
        /\ last' = [cb |-> cb, hp |-> r, model |-> res.model,
                    calls |-> res.calls, iters |-> res.iters]
        /\ space' = [space EXCEPT ![cb] = Register(@, res.calls)]
        /\ declared' = [declared EXCEPT
                           ![cb] = @ \cup {res.calls[k].name : k \in DOMAIN res.calls}]
        /\ ran' = [ran EXCEPT ![cb] = @ \cup Range(res.iters)]

------------------------------------------------------------------------------
\* Specification Spec: the callbacks invoked directly, in any order, any
\* number of times, with any answers of the handle.

NotebookIdle == UNCHANGED <<instance, pc, bindings, tuners, log>>

Init ==
    /\ space = [cb \in Callbacks |-> <<>>]
    /\ declared = [cb \in Callbacks |-> {}]
    /\ ran = [cb \in Callbacks |-> {}]
    /\ last = NoInvocation
    /\ remembered = NoInvocation
    /\ instance = MyHyperModel(10)
    /\ pc = 0
    /\ bindings = Unbound
    /\ tuners = <<>>
    /\ log = <<>>

Invoke_build_model ==
    /\ \E r \in SingleResponses(UnitsValues) : Call("build_model", r)
    /\ UNCHANGED remembered
    /\ NotebookIdle

Invoke_build_model_conditional ==
    /\ \E r \in ConditionalResponses : Call("build_model_conditional", r)
    /\ UNCHANGED remembered
    /\ NotebookIdle

Invoke_MyHyperModel_build ==
    /\ \E r \in SingleResponses(UnitsValues) : Call("MyHyperModel.build", r)
    /\ UNCHANGED remembered
    /\ NotebookIdle

Next ==
    \/ Invoke_build_model
    \/ Invoke_build_model_conditional
    \/ Invoke_MyHyperModel_build

Spec == Init /\ [][Next]_vars

------------------------------------------------------------------------------
\* Specification ReplaySpec: as Spec, and any one invocation may be kept to
\* be compared with all later ones.  Units are drawn from UnitsSample.

Keep ==
    \/ UNCHANGED remembered
    \/ remembered = NoInvocation /\ remembered' = last'

Replay_build_model ==
    /\ \E r \in SingleResponses(UnitsSample) : Call("build_model", r)
    /\ Keep
    /\ NotebookIdle

Replay_build_model_conditional ==
    /\ \E r \in ConditionalSample : Call("build_model_conditional", r)
    /\ Keep
    /\ NotebookIdle

Replay_MyHyperModel_build ==
    /\ \E r \in SingleResponses(UnitsSample) : Call("MyHyperModel.build", r)
    /\ Keep
    /\ NotebookIdle

ReplayNext ==
    \/ Replay_build_model
    \/ Replay_build_model_conditional
    \/ Replay_MyHyperModel_build

ReplaySpec == Init /\ [][ReplayNext]_vars

------------------------------------------------------------------------------
\* Specification NotebookSpec: the notebook's code cells run top to bottom.

\* RandomSearch(hypermodel, ...): the first argument is the global name that
\* is looked up when the statement runs.
\* The arguments, in order: hypermodel, objective, max_trials,
\* executions_per_trial (1 when not given), hyperparameters, tune_new_entries.
RandomSearch(hypermodel, objective, max_trials, executions, hps, tune_new) ==
    [op |-> "RandomSearch", hypermodel |-> hypermodel,
     objective |-> objective, max_trials |-> max_trials,
     executions_per_trial |-> executions, hyperparameters |-> hps,
     tune_new_entries |-> tune_new]

Stmt(op) == [op |-> op]

\* The statements of the code cells that precede the first query.
ProgramHead ==
    <<Stmt("pip_install"),
      Stmt("load_data"),
      [op |-> "def", name |-> "build_model"],
      RandomSearch("build_model", "val_accuracy", 3, 2, "none", TRUE),
      Stmt("search_space_summary")>>

\* The statements of the remaining cells, after the first tuner's queries.
ProgramTail ==
    <<[op |-> "def", name |-> "build_model_conditional"],
      Stmt("class"),
      [op |-> "new", class |-> "MyHyperModel"],
      RandomSearch("hypermodel", "val_accuracy", 3, 1, "none", TRUE),
      Stmt("search"),
      [op |-> "new", class |-> "HyperResNet"],
      RandomSearch("hypermodel", "val_accuracy", 3, 1, "none", TRUE),
      Stmt("search"),
      [op |-> "new", class |-> "HyperXception"],
      Stmt("HyperParameters"),
      [op |-> "hp", call |-> HpChoice("learning_rate", LearningRates)],
      RandomSearch("hypermodel", "val_accuracy", 3, 1, "hp", FALSE),
      Stmt("search"),
      [op |-> "new", class |-> "HyperXception"],
      Stmt("HyperParameters"),
      [op |-> "hp", call |-> HpFixed("learning_rate", "1e-4")],
      RandomSearch("hypermodel", "val_accuracy", 3, 1, "hp", TRUE),
      Stmt("search"),
      [op |-> "new", class |-> "HyperXception"],
      RandomSearch("hypermodel", "val_loss", 3, 1, "none", TRUE),
      Stmt("search")>>

\* A mutant: get_best_models is called before search.
Program_QueryBeforeSearch ==
    ProgramHead
        \o <<Stmt("get_best_models"), Stmt("search"), Stmt("results_summary")>>
        \o ProgramTail

\* The notebook: tuner.search, then get_best_models, then results_summary.
Program ==
    ProgramHead
        \o <<Stmt("search"), Stmt("get_best_models"), Stmt("results_summary")>>
        \o ProgramTail

Done == Len(Program) + 1

At(op) == pc \in 1..Len(Program) /\ Program[pc].op = op

HarnessIdle == UNCHANGED <<space, declared, ran, last, remembered>>

\* A completed notebook-level operation; tuner is the object `tuner` named
\* when it ran (0: none).
Event(op) == [op |-> op, tuner |-> bindings.tuner]

Step(op) == pc' = pc + 1 /\ log' = Append(log, Event(op))

NotebookInit ==
    /\ space = [cb \in Callbacks |-> <<>>]
    /\ declared = [cb \in Callbacks |-> {}]
    /\ ran = [cb \in Callbacks |-> {}]
    /\ last = NoInvocation
    /\ remembered = NoInvocation
    /\ instance = NoObject
    /\ pc = 1
    /\ bindings = Unbound
    /\ tuners = <<>>
    /\ log = <<>>

\* !pip install keras-tuner -q
PipInstall ==
    /\ At("pip_install")
    /\ Step("pip_install")
    /\ UNCHANGED <<instance, bindings, tuners>>
    /\ HarnessIdle

\* keras.datasets.mnist.load_data() and the preprocessing that follows.
LoadData ==
    /\ At("load_data")
    /\ Step("load_data")
    /\ UNCHANGED <<instance, bindings, tuners>>
    /\ HarnessIdle

\* def build_model(hp): binds the global name build_model to a new function.
DefBuildModel ==
    /\ At("def")
    /\ bindings' = [bindings EXCEPT !.build_model = Program[pc].name]
    /\ Step("def")
    /\ UNCHANGED <<instance, tuners>>
    /\ HarnessIdle

\* class MyHyperModel(HyperModel)
DefClass ==
    /\ At("class")
    /\ Step("class")
    /\ UNCHANGED <<instance, bindings, tuners>>
    /\ HarnessIdle

\* hypermodel = MyHyperModel(classes=10) | HyperResNet(...) | HyperXception(...)
NewHyperModel ==
    /\ At("new")
    /\ \E obj \in {IF Program[pc].class = "MyHyperModel" THEN MyHyperModel(10)
                   ELSE [class |-> Program[pc].class, classes |-> 10]} :
          /\ bindings' = [bindings EXCEPT !.hypermodel = obj]
          /\ instance' = IF obj.class = "MyHyperModel" THEN obj ELSE instance
    /\ Step("new")
    /\ UNCHANGED tuners
    /\ HarnessIdle

\* hp = HyperParameters()
NewHyperParameters ==
    /\ At("HyperParameters")
    /\ bindings' = [bindings EXCEPT !.hp = [defined |-> TRUE, space |-> <<>>]]
    /\ Step("HyperParameters")
    /\ UNCHANGED <<instance, tuners>>
    /\ HarnessIdle

\* hp.Choice("learning_rate", ...) | hp.Fixed("learning_rate", value=1e-4)
HpDeclare ==
    /\ At("hp")
    /\ bindings.hp.defined
    /\ bindings' = [bindings EXCEPT
                      !.hp.space = Register(@, <<Program[pc].call>>)]
    /\ Step("hp")
    /\ UNCHANGED <<instance, tuners>>
    /\ HarnessIdle

\* The callback a tuner drives: the function or object its first argument
\* named when RandomSearch(...) ran.
CallbackOf(name) ==
    IF name = "build_model" THEN bindings.build_model
    ELSE IF bindings.hypermodel.class = "MyHyperModel" THEN "MyHyperModel.build"
    ELSE bindings.hypermodel.class

\* tuner = RandomSearch(...)
ConstructTuner ==
    /\ At("RandomSearch")
    /\ CallbackOf(Program[pc].hypermodel) \notin {"undefined", "none"}
    /\ tuners' = Append(tuners,
                        [callback |-> CallbackOf(Program[pc].hypermodel),
                         status |-> "constructed",
                         objective |-> Program[pc].objective,
                         max_trials |-> Program[pc].max_trials,
                         executions_per_trial |-> Program[pc].executions_per_trial,
                         hyperparameters |->
                             IF Program[pc].hyperparameters = "hp"
                             THEN bindings.hp.space ELSE <<>>,
                         tune_new_entries |-> Program[pc].tune_new_entries])
    /\ bindings' = [bindings EXCEPT !.tuner = Len(tuners) + 1]
    /\ pc' = pc + 1
    /\ log' = Append(log, [op |-> "RandomSearch", tuner |-> Len(tuners) + 1])
    /\ UNCHANGED instance
    /\ HarnessIdle

\* tuner.search_space_summary()
SearchSpaceSummary ==
    /\ At("search_space_summary")
    /\ bindings.tuner # 0
    /\ Step("search_space_summary")
    /\ UNCHANGED <<instance, bindings, tuners>>
    /\ HarnessIdle

\* tuner.search(...) is entered.
SearchBegin ==
    /\ At("search")
    /\ bindings.tuner # 0
    /\ tuners[bindings.tuner].status # "searching"
    /\ tuners' = [tuners EXCEPT ![bindings.tuner].status = "searching"]
    /\ log' = Append(log, Event("search_begin"))
    /\ UNCHANGED <<pc, instance, bindings>>
    /\ HarnessIdle

\* Inside search: the tuner builds a model by calling its callback, a
\* function or method of the notebook, with a handle answering r.
Trial ==
    /\ At("search")
    /\ bindings.tuner # 0
    /\ tuners[bindings.tuner].status = "searching"
    /\ tuners[bindings.tuner].callback \in Callbacks
    /\ \E r \in IF tuners[bindings.tuner].callback = "build_model_conditional"
                THEN ConditionalResponses
                ELSE SingleResponses(UnitsValues) :
          Call(tuners[bindings.tuner].callback, r)
    /\ UNCHANGED <<remembered, instance, pc, bindings, tuners, log>>

\* Inside search: the tuner builds a model of a hypermodel of the library
\* (HyperResNet, HyperXception).
TrialOfLibraryModel ==
    /\ At("search")
    /\ bindings.tuner # 0
    /\ tuners[bindings.tuner].status = "searching"
    /\ tuners[bindings.tuner].callback \notin Callbacks
    /\ last' = [cb |-> tuners[bindings.tuner].callback]
    /\ UNCHANGED <<space, declared, ran, remembered, instance, pc, bindings,
                   tuners, log>>

\* tuner.search(...) returns.
SearchEnd ==
    /\ At("search")
    /\ bindings.tuner # 0
    /\ tuners[bindings.tuner].status = "searching"
    /\ tuners' = [tuners EXCEPT ![bindings.tuner].status = "searched"]
    /\ Step("search_end")
    /\ UNCHANGED <<instance, bindings>>
    /\ HarnessIdle

\* models = tuner.get_best_models(num_models=2)
GetBestModels ==
    /\ At("get_best_models")
    /\ bindings.tuner # 0
    /\ Step("get_best_models")
    /\ UNCHANGED <<instance, bindings, tuners>>
    /\ HarnessIdle

\* tuner.results_summary()
ResultsSummary ==
    /\ At("results_summary")
    /\ bindings.tuner # 0
    /\ Step("results_summary")
    /\ UNCHANGED <<instance, bindings, tuners>>
    /\ HarnessIdle

NotebookNext ==
    \/ PipInstall
    \/ LoadData
    \/ DefBuildModel
    \/ DefClass
    \/ NewHyperModel
    \/ NewHyperParameters
    \/ HpDeclare
    \/ ConstructTuner
    \/ SearchSpaceSummary
    \/ SearchBegin
    \/ Trial
    \/ TrialOfLibraryModel
    \/ SearchEnd
    \/ GetBestModels
    \/ ResultsSummary

NotebookSpec == NotebookInit /\ [][NotebookNext]_vars

------------------------------------------------------------------------------
\* Properties of the notebook's order of execution

Before(i, op) == \E j \in 1..(i - 1) : log[j].op = op

BeforeOn(i, op) ==
    \E j \in 1..(i - 1) : log[j].op = op /\ log[j].tuner = log[i].tuner

Searching == {t \in DOMAIN tuners : tuners[t].status = "searching"}

\* C9: execution is one synchronous sequence.  Data is loaded before any
\* callback is defined; a tuner is constructed before search is called on it;
\* search blocks: nothing else of the notebook runs between its start and its
\* end, and callbacks run only inside it; results are queried only on a tuner
\* whose search has completed; at most one tuner is searching, and it is the
\* one constructed last.
C9_SingleSynchronousSequence ==
    /\ \A i \in DOMAIN log :
           /\ log[i].op \in {"def", "class"} => Before(i, "load_data")
           /\ log[i].op = "search_begin" => BeforeOn(i, "RandomSearch")
           /\ log[i].op \in {"get_best_models", "results_summary"} =>
                  BeforeOn(i, "search_end")
           /\ log[i].op = "search_begin" =>
                  IF i = Len(log)
                  THEN Searching = {log[i].tuner} /\ At("search")
                  ELSE /\ log[i + 1].op = "search_end"
                       /\ log[i + 1].tuner = log[i].tuner
    /\ Cardinality(Searching) <= 1
    /\ Searching \subseteq {Len(tuners)}
    /\ Searching # {} => log # <<>> /\ log[Len(log)].op = "search_begin"
    /\ last.cb # "none" => \E i \in DOMAIN log : log[i].op = "search_begin"

\* C9 witness: the notebook has run to its end: six tuners were constructed
\* and searched, callbacks were invoked, and the first tuner was queried.
C9_Witness ==
    /\ pc = Done
    /\ Len(tuners) = 6
    /\ \A t \in DOMAIN tuners : tuners[t].status = "searched"
    /\ \E i \in DOMAIN log : log[i] = [op |-> "get_best_models", tuner |-> 1]
    /\ \E i \in DOMAIN log : log[i] = [op |-> "results_summary", tuner |-> 1]
    /\ "units" \in Names(space["MyHyperModel.build"])
    /\ "units" \in Names(space["build_model"])

------------------------------------------------------------------------------
\* Properties of the callbacks

IsDense(layer) == layer.type = "Dense"

\* The Dense layers before the output layer.
HiddenDense(model) ==
    SelectSeq(SubSeq(model.layers, 1, Len(model.layers) - 1), IsDense)

OutputLayer(model) == model.layers[Len(model.layers)]

\* The names "units_" + str(i) for i = 0..19, written out.
ExpectedUnitsNames ==
    <<"units_0", "units_1", "units_2", "units_3", "units_4", "units_5",
      "units_6", "units_7", "units_8", "units_9", "units_10", "units_11",
      "units_12", "units_13", "units_14", "units_15", "units_16", "units_17",
      "units_18", "units_19">>

\* The names of an invocation's handle calls made inside the loop.
InnerNames(calls) ==
    SelectSeq([k \in DOMAIN calls |-> calls[k].name],
              LAMBDA nm : nm \notin {"num_layers", "learning_rate"})

\* C1: whatever the handle answers for "units" (32, 64, ..., 512) and for
\* "learning_rate" (1e-2, 1e-3, 1e-4), the model the single-layer build_model
\* returns has exactly one hidden Dense layer, with the answered number of
\* units, then a 10-unit softmax layer, and is compiled with Adam at the
\* answered learning rate.
C1_SingleLayerReflectsAssignment ==
    last.cb = "build_model" =>
        /\ last.hp.units \in UnitsValues
        /\ last.hp.learning_rate \in Range(LearningRates)
        /\ Len(HiddenDense(last.model)) = 1
        /\ HiddenDense(last.model)[1].units = last.hp.units
        /\ OutputLayer(last.model) = Dense(10, "softmax")
        /\ last.model.optimizer = Adam(last.hp.learning_rate)

\* C1 witness: build_model was invoked with units=64 and learning_rate=1e-3
\* and returned a model whose hidden layer has 64 units.
C1_Witness ==
    /\ last.cb = "build_model"
    /\ last.hp.units = 64
    /\ last.hp.learning_rate = "1e-3"
    /\ HiddenDense(last.model)[1].units = 64

\* C2: when the handle answers n for "num_layers", the conditional
\* build_model declares inside its loop exactly the n names units_0 ..
\* units_(n-1), one per iteration and pairwise different, and returns a model
\* with exactly n hidden Dense layers.  The naming itself is distinct for
\* every loop length the code allows (2..20).
C2_LoopDeclaresDistinctNames ==
    /\ \A n \in IntValues(2, 20, 1) :
           /\ UnitsNames(range(n)) = SubSeq(ExpectedUnitsNames, 1, n)
           /\ Cardinality(Range(UnitsNames(range(n)))) = n
    /\ last.cb = "build_model_conditional" =>
           LET n == last.hp.num_layers
               inner == InnerNames(last.calls)
           IN  /\ n \in NumLayersValues
               /\ inner = SubSeq(ExpectedUnitsNames, 1, n)
               /\ Cardinality(Range(inner)) = n
               /\ Len(last.iters) = n
               /\ Len(HiddenDense(last.model)) = n
               /\ \A k \in 1..n :
                      HiddenDense(last.model)[k].units = last.hp.units[k]

\* C2 witness: the conditional build_model was invoked with num_layers=3,
\* declared units_0, units_1, units_2 and returned 3 hidden layers.
C2_Witness ==
    /\ last.cb = "build_model_conditional"
    /\ last.hp.num_layers = 3
    /\ InnerNames(last.calls) = <<"units_0", "units_1", "units_2">>
    /\ Len(HiddenDense(last.model)) = 3

C4_SearchSpaceIsWhatWasDeclared ==
    /\ \A cb \in Callbacks :
           /\ Names(space[cb]) = declared[cb]
           /\ Cardinality(Names(space[cb])) = Len(space[cb])
    /\ \A i \in 0..19 :
           ExpectedUnitsNames[i + 1] \in Names(space["build_model_conditional"])
               <=> i \in ran["build_model_conditional"]

\* C4 witness: the conditional callback ran with num_layers=3 and later with
\* num_layers=2: units_2 stays registered, the later invocation's calls (all
\* with known names) added no second entry, and units_3 was never declared.
C4_Witness ==
    /\ last.cb = "build_model_conditional"
    /\ last.hp.num_layers = 2
    /\ ran["build_model_conditional"] = {0, 1, 2}
    /\ Names(space["build_model_conditional"]) =
           {"num_layers", "units_0", "units_1", "units_2", "learning_rate"}
    /\ Len(space["build_model_conditional"]) = 5
    /\ space["build_model"] = <<>>

====
